---- MODULE Spec2Model ----
(***************************************************************************)
(* Breath Holding Capacity Signposting (breath_holder_signposting.py).     *)
(*                                                                         *)
(* The page is a Streamlit script: every change of the number input        *)
(* re-runs main() from top to bottom with the widget's current value.      *)
(* get_category_info and create_gauge_chart are module-level functions     *)
(* that can also be called directly with any integer.                      *)
(***************************************************************************)
EXTENDS Integers, Sequences, FiniteSets, TLC

VARIABLES
    seconds,          \* value returned by st.number_input in the current run
    left_col,         \* elements main rendered into the left column
    right_col,        \* elements main rendered into the right column
    classifierCalls,  \* calls of get_category_info made by the current run
    gaugeCalls,       \* calls of create_gauge_chart made by the current run
    call              \* the last direct call of one of the two functions

vars == <<seconds, left_col, right_col, classifierCalls, gaugeCalls, call>>

\* st.number_input(min_value=0, max_value=300, value=0)
MinValue == 0
MaxValue == 300
DefaultValue == 0

\* upper end of the gauge axis: 'axis': {'range': [None, 180]}
AxisMax == 180

\* Direct calls are made with integers up to this far outside the widget range.
Margin == 3

WidgetRange == MinValue..MaxValue
CallRange == (MinValue - Margin)..(MaxValue + Margin)

----------------------------------------------------------------------------
(* The four records get_category_info returns.                             *)

Category1 ==
    [category |-> "Category 1: Initial Assessment Required",
     color |-> "#FF9999",
     description |-> "Your breath-holding capacity suggests that further assessment might be beneficial.",
     recommendations |-> <<"Schedule a GP appointment for respiratory assessment",
                           "Start with very gentle breathing exercises",
                           "Monitor your daily breathing patterns">>,
     nhs_links |-> << <<"NHS - Breathing Exercises for Stress", "https://www.nhs.uk/mental-health/self-help/guides-tools-and-activities/breathing-exercises-for-stress/">>,
                      <<"NHS - When to see a GP", "https://www.nhs.uk/conditions/shortness-of-breath/">>,
                      <<"NHS - Breathing Difficulty", "https://www.nhs.uk/conditions/breathing-difficulty/">> >>]

Category2 ==
    [category |-> "Category 2: Developing Capacity",
     color |-> "#99FF99",
     description |-> "You have a developing breath-holding capacity. Regular practice can help improve this.",
     recommendations |-> <<"Practice regular breathing exercises",
                           "Consider lifestyle factors that might affect breathing",
                           "Monitor progress weekly">>,
     nhs_links |-> << <<"NHS - Physical Activity Guidelines", "https://www.nhs.uk/live-well/exercise/">>,
                      <<"NHS - Fitness Studio Exercise Videos", "https://www.nhs.uk/conditions/nhs-fitness-studio/">>,
                      <<"NHS - Better Health", "https://www.nhs.uk/better-health/">> >>]

Category3 ==
    [category |-> "Category 3: Good Capacity",
     color |-> "#99CCFF",
     description |-> "Your breath-holding capacity is good, showing effective breathing control.",
     recommendations |-> <<"Maintain current breathing practices",
                           "Consider incorporating advanced techniques",
                           "Focus on consistency in practice">>,
     nhs_links |-> << <<"NHS - Fitness Tips", "https://www.nhs.uk/live-well/exercise/fitness-tips/">>,
                      <<"NHS - Running Tips", "https://www.nhs.uk/live-well/exercise/running-tips-for-beginners/">>,
                      <<"NHS - Health Benefits of Swimming", "https://www.nhs.uk/live-well/exercise/swimming-for-fitness/">> >>]

Category4 ==
    [category |-> "Category 4: Advanced Capacity",
     color |-> "#FFCC99",
     description |-> "You demonstrate advanced breath-holding capacity. Your level indicates excellent respiratory control.",
     recommendations |-> <<"Maintain this excellent level",
                           "Consider advanced breathing techniques",
                           "Share your expertise with others">>,
     nhs_links |-> << <<"NHS - Exercise Health Benefits", "https://www.nhs.uk/live-well/exercise/exercise-health-benefits/">>,
                      <<"NHS - Get Active Your Way", "https://www.nhs.uk/live-well/exercise/get-active-your-way/">>,
                      <<"NHS - Fitness Studio", "https://www.nhs.uk/conditions/nhs-fitness-studio/">> >>]

Categories == {Category1, Category2, Category3, Category4}

\* The ordinal printed in a record's 'category' label ("Category N: ...").
CategoryId(rec) ==
    CASE rec.category = "Category 1: Initial Assessment Required" -> 1
      [] rec.category = "Category 2: Developing Capacity" -> 2
      [] rec.category = "Category 3: Good Capacity" -> 3
      [] rec.category = "Category 4: Advanced Capacity" -> 4

----------------------------------------------------------------------------
(* get_category_info: the branch conditions as written, tried top-down.    *)

Cond1_le(s) == s <= 30

\* if seconds < 30:
Cond1(s) == s < 30

Cond2_gap(s) == 30 < s /\ s <= 60

\* elif 30 <= seconds <= 60:
Cond2(s) == 30 <= s /\ s <= 60

Cond3_overlap(s) == 60 <= s /\ s <= 150

\* elif 61 <= seconds <= 150:
Cond3(s) == 61 <= s /\ s <= 150

get_category_info_nonneg(s) ==
    IF 0 <= s /\ Cond1(s) THEN Category1
    ELSE IF Cond2(s) THEN Category2
    ELSE IF Cond3(s) THEN Category3
    ELSE Category4

get_category_info(s) ==
    IF Cond1(s) THEN Category1
    ELSE IF Cond2(s) THEN Category2
    ELSE IF Cond3(s) THEN Category3
    ELSE Category4

\* The branches of get_category_info whose condition s satisfies; branch 4 is
\* the final else, taken when no written condition holds.
MatchingBranches(s) ==
    {b \in 1..4 : CASE b = 1 -> Cond1(s)
                    [] b = 2 -> Cond2(s)
                    [] b = 3 -> Cond3(s)
                    [] b = 4 -> ~(Cond1(s) \/ Cond2(s) \/ Cond3(s))}

----------------------------------------------------------------------------
(* create_gauge_chart: the go.Indicator figure and its layout.             *)

create_gauge_chart_clipped(value) ==
    [mode |-> "gauge+number",
     value |-> IF value > AxisMax THEN AxisMax ELSE value,
     domain |-> [x |-> <<0, 1>>, y |-> <<0, 1>>],
     title |-> [text |-> "Seconds", font |-> [size |-> 24]],
     gauge |-> [axis |-> [range |-> [lo |-> "None", hi |-> AxisMax],
                          tickwidth |-> 1, tickcolor |-> "darkblue"],
                bar |-> [color |-> "#1E88E5"],
                bgcolor |-> "white",
                borderwidth |-> 2,
                bordercolor |-> "gray",
                steps |-> <<[range |-> <<0, 30>>, color |-> "#FF9999"],
                            [range |-> <<30, 60>>, color |-> "#99FF99"],
                            [range |-> <<60, 150>>, color |-> "#99CCFF"],
                            [range |-> <<150, AxisMax>>, color |-> "#FFCC99"]>>],
     layout |-> [height |-> 300,
                 margin |-> [l |-> 10, r |-> 10, t |-> 40, b |-> 10],
                 paper_bgcolor |-> "white",
                 font |-> [color |-> "darkblue", family |-> "Arial"]]]

create_gauge_chart(value) ==
    [mode |-> "gauge+number",
     value |-> value,
     domain |-> [x |-> <<0, 1>>, y |-> <<0, 1>>],
     title |-> [text |-> "Seconds", font |-> [size |-> 24]],
     gauge |-> [axis |-> [range |-> [lo |-> "None", hi |-> AxisMax],
                          tickwidth |-> 1, tickcolor |-> "darkblue"],
                bar |-> [color |-> "#1E88E5"],
                bgcolor |-> "white",
                borderwidth |-> 2,
                bordercolor |-> "gray",
                steps |-> <<[range |-> <<0, 30>>, color |-> "#FF9999"],
                            [range |-> <<30, 60>>, color |-> "#99FF99"],
                            [range |-> <<60, 150>>, color |-> "#99CCFF"],
                            [range |-> <<150, AxisMax>>, color |-> "#FFCC99"]>>],
     layout |-> [height |-> 300,
                 margin |-> [l |-> 10, r |-> 10, t |-> 40, b |-> 10],
                 paper_bgcolor |-> "white",
                 font |-> [color |-> "darkblue", family |-> "Arial"]]]

\* The seconds at which a band other than the first one starts.
InteriorBandBoundaries(fig) ==
    {fig.gauge.steps[i].range[1] : i \in 2..Len(fig.gauge.steps)}

\* The colour of the band of fig that starts at second s.
BandColorFrom(fig, s) ==
    {fig.gauge.steps[i].color : i \in {j \in 1..Len(fig.gauge.steps) : fig.gauge.steps[j].range[1] = s}}

----------------------------------------------------------------------------
(* main: one run of the script with the widget's value v.                  *)

HasInput_ge(s) == s >= 0

\* if seconds > 0:
HasInput(s) == s > 0

ShouldCelebrate_top(result) ==
    result.category \in {"Category 4: Advanced Capacity"}

\* if result['category'] in ['Category 3: Good Capacity', 'Category 4: Advanced Capacity']:
ShouldCelebrate(result) ==
    result.category \in {"Category 3: Good Capacity", "Category 4: Advanced Capacity"}

\* The header, the instructions expander and the number input.
LeftColumn(v) ==
    <<[kind |-> "markdown", class |-> "header-style", text |-> "Breath Holding Capacity Signposting"],
      [kind |-> "expander", label |-> "Instructions",
       steps |-> <<"Find a comfortable seated position",
                   "Take a few normal breaths to relax",
                   "Take a deep breath and hold it",
                   "Start the timer when you begin holding",
                   "Stop when you need to breathe">>],
      [kind |-> "number_input", label |-> "Enter your breath-holding time (in seconds)",
       min_value |-> MinValue, max_value |-> MaxValue, value |-> v]>>

\* What the right column shows for a result and its figure.
RightColumn(result, fig) ==
    <<[kind |-> "plotly_chart", fig |-> fig]>>
    \o (IF ShouldCelebrate(result) THEN <<[kind |-> "balloons"]>> ELSE <<>>)
    \o <<[kind |-> "card", background |-> result.color \o "20",
          title |-> result.category, body |-> result.description]>>
    \o <<[kind |-> "subheader", text |-> "Recommendations"]>>
    \o [i \in 1..Len(result.recommendations) |->
          [kind |-> "bullet", text |-> result.recommendations[i]]]
    \o <<[kind |-> "subheader", text |-> "Relevant NHS Resources"]>>
    \o [i \in 1..Len(result.nhs_links) |->
          [kind |-> "link", title |-> result.nhs_links[i][1], href |-> result.nhs_links[i][2]]]

NoCall == [fn |-> "none", arg |-> 0, raised |-> "none"]

Init ==
    /\ seconds = DefaultValue
    /\ left_col = LeftColumn(DefaultValue)
    /\ right_col = <<>>
    /\ classifierCalls = <<>>
    /\ gaugeCalls = <<>>
    /\ call = NoCall

main(v) ==
    /\ seconds' = v
    /\ left_col' = LeftColumn(v)
    /\ IF HasInput(v)
       THEN /\ classifierCalls' = <<[arg |-> v, ret |-> get_category_info(v)]>>
            /\ gaugeCalls' = <<[arg |-> v, ret |-> create_gauge_chart(v)]>>
            /\ right_col' = RightColumn(get_category_info(v), create_gauge_chart(v))
       ELSE /\ classifierCalls' = <<>>
            /\ gaugeCalls' = <<>>
            /\ right_col' = <<>>
    /\ UNCHANGED call

\* The page: the script is run, and re-run on every change of the input.
Next == \E v \in WidgetRange : main(v)

Spec == Init /\ [][Next]_vars

----------------------------------------------------------------------------
(* The module imported instead of run: __name__ is not "__main__", main is *)
(* never called, and the two functions are called directly.                *)

ApiInit ==
    /\ seconds = DefaultValue
    /\ left_col = <<>>
    /\ right_col = <<>>
    /\ classifierCalls = <<>>
    /\ gaugeCalls = <<>>
    /\ call = NoCall

\* A direct call get_category_info(s); the function has no raise statement.
CallClassifier(s) ==
    /\ call' = [fn |-> "get_category_info", arg |-> s, raised |-> "none",
                ret |-> get_category_info(s)]
    /\ UNCHANGED <<seconds, left_col, right_col, classifierCalls, gaugeCalls>>

\* A direct call create_gauge_chart(s); the function has no raise statement.
CallGauge(s) ==
    /\ call' = [fn |-> "create_gauge_chart", arg |-> s, raised |-> "none",
                ret |-> create_gauge_chart(s)]
    /\ UNCHANGED <<seconds, left_col, right_col, classifierCalls, gaugeCalls>>

ApiNext ==
    \/ \E s \in CallRange : CallClassifier(s)
    \/ \E s \in CallRange : CallGauge(s)

ApiSpec == ApiInit /\ [][ApiNext]_vars

----------------------------------------------------------------------------
(* Properties of the classifier.                                           *)

ClassifierCalled == call.fn = "get_category_info"
GaugeCalled == call.fn = "create_gauge_chart"
InDomain(s) == s \in WidgetRange

\* C1: for every integer s in [0, 300] get_category_info(s) is one of the four
\* category records, and s satisfies the condition of exactly one branch, the
\* branch whose record is returned.
C1_ExactlyOneCategory ==
    (ClassifierCalled /\ InDomain(call.arg)) =>
        /\ call.raised = "none"
        /\ call.ret \in Categories
        /\ MatchingBranches(call.arg) = {CategoryId(call.ret)}

C1_Witness ==
    /\ ClassifierCalled
    /\ call.arg = 60
    /\ call.ret = Category2
    /\ MatchingBranches(60) = {2}

\* C2: 29 seconds is Category 1 and 30 seconds is Category 2.
C2_LowestThreshold ==
    ClassifierCalled =>
        /\ call.arg = 29 => call.ret = Category1
        /\ call.arg = 30 => call.ret = Category2

C2_Witness ==
    /\ ClassifierCalled
    /\ call.arg = 30
    /\ call.ret = Category2
    /\ get_category_info(29) = Category1

\* C3: every threshold second t in {30, 60, 150} is the first second of the
\* next category: get_category_info(t) is the category after that of
\* get_category_info(t - 1).
C3_OneBoundaryConvention ==
    (ClassifierCalled /\ call.arg \in {30, 60, 150}) =>
        /\ call.ret # get_category_info(call.arg - 1)
        /\ CategoryId(call.ret) = CategoryId(get_category_info(call.arg - 1)) + 1

\* C4: for every s in [1, 180] the category changes between s - 1 and s if and
\* only if a band of the gauge other than the first starts at s, and that band
\* has the colour of the category that starts there.
C4_BandsEqualThresholds ==
    (ClassifierCalled /\ call.arg \in 1..AxisMax) =>
        /\ (call.ret # get_category_info(call.arg - 1))
               <=> (call.arg \in InteriorBandBoundaries(create_gauge_chart(call.arg)))
        /\ (call.ret # get_category_info(call.arg - 1))
               => BandColorFrom(create_gauge_chart(call.arg), call.arg) = {call.ret.color}

\* C10: the category ordinal is 1 at 0 and 4 at 300, never falls and never
\* rises by more than 1 from s to s + 1.
C10_ContiguousRanges ==
    (ClassifierCalled /\ InDomain(call.arg)) =>
        /\ call.arg = MinValue => CategoryId(call.ret) = 1
        /\ call.arg = MaxValue => CategoryId(call.ret) = 4
        /\ call.arg < MaxValue =>
              CategoryId(get_category_info(call.arg + 1)) - CategoryId(call.ret) \in {0, 1}

C10_Witness ==
    /\ ClassifierCalled
    /\ call.arg = 150
    /\ CategoryId(call.ret) = 3
    /\ CategoryId(get_category_info(151)) = 4

\* C9 as stated: a direct call with seconds < 0 or seconds > 300 fails with an
\* out-of-range error and returns no record; a call in [0, 300] never fails.
C9_OutOfRangeFails ==
    ClassifierCalled =>
        IF InDomain(call.arg) THEN call.raised = "none"
        ELSE call.raised = "OutOfRangeError"

\* C9 amended: a direct call never fails for any integer; it returns the
\* Category 1 record below 0 and the Category 4 record above 300.
C9_NeverFails ==
    ClassifierCalled =>
        /\ call.raised = "none"
        /\ call.ret \in Categories
        /\ call.arg < MinValue => call.ret = Category1
        /\ call.arg > MaxValue => call.ret = Category4

C9_Witness ==
    /\ ClassifierCalled
    /\ call.arg < MinValue
    /\ call.raised = "none"
    /\ call.ret = Category1

----------------------------------------------------------------------------
(* Properties of the gauge.                                                *)

\* C6: for every s in [0, 300] the figure's value is s, the axis ends at 180
\* and the gauge and layout are those of every other input; above 180 the
\* value is still s, beyond the end of the axis.
C6_GaugeValueIsInput ==
    (GaugeCalled /\ InDomain(call.arg)) =>
        /\ call.ret.value = call.arg
        /\ call.ret.mode = "gauge+number"
        /\ call.ret.gauge.axis.range.hi = AxisMax
        /\ Len(call.ret.gauge.steps) = 4
        /\ call.ret.gauge = create_gauge_chart(MinValue).gauge
        /\ call.ret.layout = create_gauge_chart(MinValue).layout
        /\ call.arg > AxisMax => call.ret.value > call.ret.gauge.axis.range.hi

C6_Witness ==
    /\ GaugeCalled
    /\ call.arg = MaxValue
    /\ call.ret.value = MaxValue
    /\ call.ret.gauge.axis.range.hi = 180

----------------------------------------------------------------------------
(* Properties of main.                                                     *)

BalloonsFired == \E i \in 1..Len(right_col) : right_col[i].kind = "balloons"

Rendered(kind) == Cardinality({i \in 1..Len(right_col) : right_col[i].kind = kind})

\* C5: the balloons fire if and only if a result is rendered and its category
\* is Category 3 or 4; never for Category 1 or 2, never for input 0.
C5_CelebrationIffTopTwo ==
    /\ BalloonsFired <=>
          (seconds > 0 /\ CategoryId(get_category_info(seconds)) \in {3, 4})
    /\ BalloonsFired =>
          (classifierCalls # <<>> /\ CategoryId(classifierCalls[1].ret) \in {3, 4})
    /\ Rendered("balloons") <= 1

C5_Witness ==
    /\ BalloonsFired
    /\ seconds = 61
    /\ classifierCalls[1].ret = Category3

\* C7: with input 0 main calls neither function and renders nothing in the
\* right column; with input above 0 it calls each function exactly once, with
\* the input value, and renders the gauge, the card, the recommendations and
\* the links of the result.
C7_GuardOnInput ==
    IF seconds <= 0
    THEN /\ classifierCalls = <<>>
         /\ gaugeCalls = <<>>
         /\ right_col = <<>>
    ELSE /\ Len(classifierCalls) = 1
         /\ classifierCalls[1].arg = seconds
         /\ Len(gaugeCalls) = 1
         /\ gaugeCalls[1].arg = seconds
         /\ Rendered("plotly_chart") = 1
         /\ right_col[1] = [kind |-> "plotly_chart", fig |-> gaugeCalls[1].ret]
         /\ Rendered("card") = 1
         /\ Rendered("bullet") = Len(classifierCalls[1].ret.recommendations)
         /\ Rendered("link") = Len(classifierCalls[1].ret.nhs_links)

C7_Witness ==
    /\ seconds = 45
    /\ classifierCalls = <<[arg |-> 45, ret |-> Category2]>>
    /\ Len(gaugeCalls) = 1
    /\ gaugeCalls[1].ret.value = 45
    /\ ~BalloonsFired

====
